---- MODULE Spec2Model ----
(***************************************************************************)
(* memqsim: a single-qubit state vector (alpha, beta) of Complex64 values  *)
(* and the library of 2x2 gate matrices applied to it.                     *)
(*                                                                         *)
(* The amplitudes are f64 values.  They are modelled bit for bit: an f64   *)
(* is a sign, a 53-bit significand and a binary exponent, and every        *)
(* arithmetic operation rounds its exact result to the nearest f64, ties   *)
(* to even, overflowing to infinity and underflowing gradually.  TLC's     *)
(* integers are 32 bits wide, so a significand is kept as a little-endian  *)
(* sequence of 14-bit limbs.  The two zeros of f64 compare equal and are   *)
(* one value here.                                                         *)
(***************************************************************************)
EXTENDS Integers, Sequences, FiniteSets, TLC

VARIABLES
  qubit,   \* the SingleQubit value the caller holds
  op,      \* the last operation called: its name, arguments and gate matrix
  prev,    \* the qubit as it was when that operation was called
  ret,     \* what that operation returned (0.0 for the ones returning nothing)
  steps,   \* operations called on the qubit since it was constructed
  unit,    \* prob_zero + prob_one was 1 within 1e-10 when the qubit was
           \* constructed or last normalized, and only library gates (and
           \* readers) were called since
  xrun,    \* how many of the latest operations in a row were x_gate
  xbase,   \* the qubit as it was before that run of x_gate calls
  caller,  \* "main": main.rs drives the qubit; "client": any user of the API
  pc       \* main's next statement

vars == <<qubit, op, prev, ret, steps, unit, xrun, xbase, caller, pc>>

----------------------------------------------------------------------------
(* Natural numbers of any size: little-endian limbs, no leading zero limb. *)

LimbBits == 14
Base == 2^LimbBits

Pow2(k) == 2^k

Limb(a, i) == IF i <= Len(a) THEN a[i] ELSE 0

RECURSIVE NTrim(_)
NTrim(a) ==
  IF a = <<>> THEN <<>>
  ELSE IF a[Len(a)] = 0 THEN NTrim(SubSeq(a, 1, Len(a) - 1))
  ELSE a

RECURSIVE NFromInt(_)
NFromInt(n) == IF n = 0 THEN <<>> ELSE <<n % Base>> \o NFromInt(n \div Base)

RECURSIVE NAddC(_, _, _, _)
RECURSIVE NAddD(_, _, _, _)
NAddD(a, b, i, s) == <<s % Base>> \o NAddC(a, b, i + 1, s \div Base)

NAddC(a, b, i, c) ==
  IF i > Len(a) /\ i > Len(b)
  THEN IF c = 0 THEN <<>> ELSE <<c>>
  ELSE NAddD(a, b, i, Limb(a, i) + Limb(b, i) + c)

NAdd(a, b) == NAddC(a, b, 1, 0)

RECURSIVE NSubC(_, _, _, _)
RECURSIVE NSubD(_, _, _, _)
NSubD(a, b, i, d) ==
  IF d < 0 THEN <<d + Base>> \o NSubC(a, b, i + 1, 1)
  ELSE <<d>> \o NSubC(a, b, i + 1, 0)

NSubC(a, b, i, c) ==
  IF i > Len(a) THEN <<>>
  ELSE NSubD(a, b, i, a[i] - Limb(b, i) - c)

\* a - b for a >= b
NSub(a, b) == NTrim(NSubC(a, b, 1, 0))

RECURSIVE NCmpAt(_, _, _)
NCmpAt(a, b, i) ==
  IF i = 0 THEN 0
  ELSE IF a[i] < b[i] THEN -1
  ELSE IF a[i] > b[i] THEN 1
  ELSE NCmpAt(a, b, i - 1)

\* -1, 0, 1 as a < b, a = b, a > b
NCmp(a, b) ==
  IF Len(a) < Len(b) THEN -1
  ELSE IF Len(a) > Len(b) THEN 1
  ELSE NCmpAt(a, b, Len(a))

RECURSIVE NColumn(_, _, _, _)
NColumn(a, b, k, i) ==
  IF i > Len(a) \/ i > k THEN 0
  ELSE (IF k + 1 - i <= Len(b) THEN a[i] * b[k + 1 - i] ELSE 0)
       + NColumn(a, b, k, i + 1)

RECURSIVE NMulC(_, _, _, _)
RECURSIVE NMulD(_, _, _, _)
NMulD(a, b, k, s) == <<s % Base>> \o NMulC(a, b, k + 1, s \div Base)

NMulC(a, b, k, c) ==
  IF k > Len(a) + Len(b) THEN <<>>
  ELSE NMulD(a, b, k, NColumn(a, b, k, 1) + c)

NMul(a, b) ==
  IF a = <<>> \/ b = <<>> THEN <<>> ELSE NTrim(NMulC(a, b, 1, 0))

RECURSIVE BitLenInt(_)
BitLenInt(n) == IF n = 0 THEN 0 ELSE 1 + BitLenInt(n \div 2)

NBitLen(a) ==
  IF a = <<>> THEN 0 ELSE (Len(a) - 1) * LimbBits + BitLenInt(a[Len(a)])

\* bit i (from 0) of a
NBit(a, i) == (Limb(a, (i \div LimbBits) + 1) \div Pow2(i % LimbBits)) % 2

\* a * 2^k
NShl(a, k) ==
  IF a = <<>> THEN <<>>
  ELSE LET q == k \div LimbBits
           r == k % LimbBits
           n == Len(a) + q + 1
       IN  NTrim([i \in 1..n |->
             IF i <= q THEN 0
             ELSE ((Limb(a, i - q) * Pow2(r)) % Base)
                  + (IF i - q - 1 >= 1
                     THEN Limb(a, i - q - 1) \div Pow2(LimbBits - r) ELSE 0)])

\* floor(a / 2^k)
NShr(a, k) ==
  LET q == k \div LimbBits
      r == k % LimbBits
  IN  IF Len(a) <= q THEN <<>>
      ELSE NTrim([i \in 1..(Len(a) - q) |->
             (a[i + q] \div Pow2(r))
             + ((Limb(a, i + q + 1) % Pow2(r)) * Pow2(LimbBits - r))])

\* a mod 2^k = 0
NLowZero(a, k) == NShl(NShr(a, k), k) = a

\* a < 2^31 as an integer
NToInt(a) == Limb(a, 1) + Limb(a, 2) * Base + Limb(a, 3) * Base * Base

\* a * Base + l
NPush(a, l) == IF a = <<>> /\ l = 0 THEN <<>> ELSE <<l>> \o a

\* The quotient digit floor(r / d) for r < d * Base.  The leading 15 bits of d
\* and the bits of r above the same place give an estimate that is never too
\* large and at most a few units too small; it is then raised until the
\* remainder is below d.
RECURSIVE NDigitFix(_, _, _)
NDigitFix(rem, d, t) ==
  IF NCmp(rem, d) < 0 THEN [t |-> t, r |-> rem]
  ELSE NDigitFix(NSub(rem, d), d, t + 1)

NDigitFrom(r, d, t0) == NDigitFix(NSub(r, NMul(d, NFromInt(t0))), d, t0)

NDigitAt(r, d, sh) ==
  NDigitFrom(r, d, IF sh = 0 THEN NToInt(r) \div NToInt(d)
                   ELSE NToInt(NShr(r, sh)) \div (NToInt(NShr(d, sh)) + 1))

NDigit(r, d) ==
  IF NCmp(r, d) < 0 THEN [t |-> 0, r |-> r]
  ELSE NDigitAt(r, d, IF NBitLen(d) > LimbBits + 1
                      THEN NBitLen(d) - LimbBits - 1 ELSE 0)

\* Long division of n by d from limb i down, one quotient limb at a time:
\* r the remainder so far, q the quotient so far.
RECURSIVE NDivLimbs(_, _, _, _, _)
RECURSIVE NDivNext(_, _, _, _, _)
NDivNext(n, d, i, q, st) == NDivLimbs(n, d, i - 1, st.r, NPush(q, st.t))

NDivLimbs(n, d, i, r, q) ==
  IF i = 0 THEN [q |-> q, exact |-> (r = <<>>)]
  ELSE NDivNext(n, d, i, q, NDigit(NPush(r, n[i]), d))

\* floor(n / d) for d > 0, and whether the division is exact
NDiv(n, d) == NDivLimbs(n, d, Len(n), <<>>, <<>>)

\* floor(sqrt(t)) for an integer t < 2^30, bits i down to 0
RECURSIVE ISqrtBits(_, _, _)
ISqrtBits(t, i, r) ==
  IF i < 0 THEN r
  ELSE IF (r + Pow2(i)) * (r + Pow2(i)) <= t
       THEN ISqrtBits(t, i - 1, r + Pow2(i))
       ELSE ISqrtBits(t, i - 1, r)

\* Newton's iteration from a start x >= sqrt(n): it decreases to floor(sqrt(n))
RECURSIVE NSqrtNewton(_, _)
RECURSIVE NSqrtStep(_, _, _)
NSqrtStep(n, x, y) == IF NCmp(y, x) >= 0 THEN x ELSE NSqrtNewton(n, y)

NSqrtNewton(n, x) == NSqrtStep(n, x, NShr(NAdd(x, NDiv(n, x).q), 1))

\* floor(sqrt(n)); the start comes from the leading (at most 28) bits of n
NSqrtFrom(n, s) ==
  NSqrtNewton(n, NShl(NFromInt(ISqrtBits(NToInt(NShr(n, s)), 14, 0) + 1), s \div 2))

NSqrtCut(n, s0) == NSqrtFrom(n, s0 + (s0 % 2))

NSqrt(n) ==
  IF n = <<>> THEN <<>>
  ELSE NSqrtCut(n, IF NBitLen(n) > 28 THEN NBitLen(n) - 28 ELSE 0)

----------------------------------------------------------------------------
(* f64: (-1)^s * m * 2^e.  A normal number has a 53-bit m; a subnormal one *)
(* has e = EMin and a shorter m; zero has an empty m.                      *)

MantBits == 53
EMin == -1074
EMax == 971

FZero == [k |-> "fin", s |-> 0, m |-> <<>>, e |-> 0]
FInf(s) == [k |-> "inf", s |-> s, m |-> <<>>, e |-> 0]
FNaN == [k |-> "nan", s |-> 0, m |-> <<>>, e |-> 0]

IsNaN(x) == x.k = "nan"
IsInf(x) == x.k = "inf"
IsZero(x) == x.k = "fin" /\ x.m = <<>>

\* (-1)^s * m * 2^e for m below 2^53, or the infinity it overflows to
Finite(s, m, e) ==
  IF m = <<>> THEN FZero
  ELSE IF e > EMax THEN FInf(s)
  ELSE [k |-> "fin", s |-> s, m |-> m, e |-> e]

\* the same for m up to 2^53, which rounding up can reach
Pack(s, m, e) ==
  IF NBitLen(m) > MantBits THEN Finite(s, NShr(m, 1), e + 1) ELSE Finite(s, m, e)

\* Ties to even: q = floor(M / 2^sh) goes up when the part cut off is above
\* half, or is half and q is odd.  sticky: the exact value is above M.
RoundsUp(M, sh, sticky, q) ==
  /\ NBit(M, sh - 1) = 1
  /\ \/ sticky
     \/ ~NLowZero(M, sh - 1)
     \/ NBit(q, 0) = 1

Nearest(M, sh, sticky, q) ==
  IF RoundsUp(M, sh, sticky, q) THEN NAdd(q, <<1>>) ELSE q

RoundShift(s, M, sticky, e1, sh) ==
  IF sh <= 0 THEN Pack(s, NShl(M, -sh), e1)
  ELSE Pack(s, Nearest(M, sh, sticky, NShr(M, sh)), e1)

\* the exponent of a result whose significand's top bit has weight 2^(e + 52)
RoundExp(e) == IF e > EMin THEN e ELSE EMin

RoundAt(s, M, E, sticky, e1) == RoundShift(s, M, sticky, e1, e1 - E)

\* The f64 nearest to (-1)^s * (M + t) * 2^E, ties to even, where 0 < t < 1
\* when sticky and t = 0 otherwise.
Round(s, M, E, sticky) ==
  IF M = <<>> THEN FZero
  ELSE RoundAt(s, M, E, sticky, RoundExp(E + NBitLen(M) - MantBits))

FNeg(x) ==
  IF IsNaN(x) \/ IsZero(x) THEN x ELSE [x EXCEPT !.s = 1 - x.s]

FAbs(x) == IF IsNaN(x) THEN x ELSE [x EXCEPT !.s = 0]

SignXor(x, y) == IF x.s = y.s THEN 0 ELSE 1

\* |x| = 1
IsOne(x) == x.k = "fin" /\ x.e = -52 /\ x.m = <<0, 0, 0, 1024>>

\* x * y; a factor of 0 or of +-1 leaves nothing to round
FMul(x, y) ==
  IF IsNaN(x) \/ IsNaN(y) THEN FNaN
  ELSE IF IsInf(x) \/ IsInf(y)
  THEN IF IsZero(x) \/ IsZero(y) THEN FNaN ELSE FInf(SignXor(x, y))
  ELSE IF IsZero(x) \/ IsZero(y) THEN FZero
  ELSE IF IsOne(x) THEN [y EXCEPT !.s = SignXor(x, y)]
  ELSE IF IsOne(y) THEN [x EXCEPT !.s = SignXor(x, y)]
  ELSE Round(SignXor(x, y), NMul(x.m, y.m), x.e + y.e, FALSE)

\* The sum of finite nonzero x and y with x.e >= y.e, mx being x.m * 2^(x.e - y.e):
\* its sign and its magnitude in units of 2^y.e
SumSign(x, y, mx) ==
  IF x.s = y.s \/ NCmp(mx, y.m) >= 0 THEN x.s ELSE y.s

SumMag(x, y, mx) ==
  IF x.s = y.s THEN NAdd(mx, y.m)
  ELSE IF NCmp(mx, y.m) >= 0 THEN NSub(mx, y.m)
  ELSE NSub(y.m, mx)

AddShifted(x, y, mx) == Round(SumSign(x, y, mx), SumMag(x, y, mx), y.e, FALSE)

\* y below a quarter of the last place of x does not change x
AddAligned(x, y) ==
  IF x.e - y.e > 60 THEN x ELSE AddShifted(x, y, NShl(x.m, x.e - y.e))

FAddFinite(x, y) ==
  AddAligned(IF x.e >= y.e THEN x ELSE y, IF x.e >= y.e THEN y ELSE x)

FAdd(x, y) ==
  IF IsNaN(x) \/ IsNaN(y) THEN FNaN
  ELSE IF IsInf(x) THEN (IF IsInf(y) /\ x.s # y.s THEN FNaN ELSE x)
  ELSE IF IsInf(y) THEN y
  ELSE IF IsZero(x) THEN y
  ELSE IF IsZero(y) THEN x
  ELSE FAddFinite(x, y)

FSub(x, y) == FAdd(x, FNeg(y))

\* x / y for finite nonzero x, y: the quotient of x.m * 2^k by y.m has at
\* least 56 bits
DivRound(x, y, k, d) == Round(SignXor(x, y), d.q, x.e - y.e - k, ~d.exact)

DivShifted(x, y, k) == DivRound(x, y, k, NDiv(NShl(x.m, k), y.m))

FDiv(x, y) ==
  IF IsNaN(x) \/ IsNaN(y) THEN FNaN
  ELSE IF IsInf(x) THEN (IF IsInf(y) THEN FNaN ELSE FInf(SignXor(x, y)))
  ELSE IF IsInf(y) THEN FZero
  ELSE IF IsZero(y) THEN (IF IsZero(x) THEN FNaN ELSE FInf(SignXor(x, y)))
  ELSE IF IsZero(x) THEN FZero
  ELSE DivShifted(x, y, MantBits + 3 + NBitLen(y.m) - NBitLen(x.m))

\* sqrt(x) for finite x > 0: n = x.m * 2^k has at least 110 bits and x.e - k
\* is even
SqrtRound(e, n, r) == Round(0, r, e \div 2, NMul(r, r) # n)

SqrtOf(e, n) == SqrtRound(e, n, NSqrt(n))

SqrtShifted(x, k) == SqrtOf(x.e - k, NShl(x.m, k))

SqrtEven(x, k) == SqrtShifted(x, IF (x.e - k) % 2 = 0 THEN k ELSE k + 1)

FSqrt(x) ==
  IF IsNaN(x) THEN FNaN
  ELSE IF IsZero(x) THEN FZero
  ELSE IF x.s = 1 THEN FNaN
  ELSE IF IsInf(x) THEN x
  ELSE SqrtEven(x, 2 * MantBits + 4 - NBitLen(x.m))

\* |x| < |y| for finite or infinite x, y
MagLt(x, y) ==
  IF IsInf(x) THEN FALSE
  ELSE IF IsInf(y) THEN TRUE
  ELSE IF IsZero(y) THEN FALSE
  ELSE IF IsZero(x) THEN TRUE
  ELSE IF x.e + NBitLen(x.m) # y.e + NBitLen(y.m)
  THEN x.e + NBitLen(x.m) < y.e + NBitLen(y.m)
  ELSE IF x.e >= y.e THEN NCmp(NShl(x.m, x.e - y.e), y.m) < 0
  ELSE NCmp(x.m, NShl(y.m, y.e - x.e)) < 0

\* x < y; false when either is NaN
FLt(x, y) ==
  IF IsNaN(x) \/ IsNaN(y) THEN FALSE
  ELSE IF x = y THEN FALSE
  ELSE IF x.s # y.s THEN x.s = 1
  ELSE IF x.s = 0 THEN MagLt(x, y) ELSE MagLt(y, x)

FGt(x, y) == FLt(y, x)


\* a literal, given by the limbs of its 53-bit significand
Lit(s, m, e) == [k |-> "fin", s |-> s, m |-> m, e |-> e]

Zero  == FZero
One   == Lit(0, <<0, 0, 0, 1024>>, -52)
Two   == Lit(0, <<0, 0, 0, 1024>>, -51)
Three == Lit(0, <<0, 0, 0, 1536>>, -51)
Four  == Lit(0, <<0, 0, 0, 1024>>, -50)
Half  == Lit(0, <<0, 0, 0, 1024>>, -53)

\* std::f64::consts::PI = 3.141592653589793 = 0x1.921fb54442d18p+1
PI == Lit(0, <<11544, 4368, 8117, 1608>>, -51)
\* 0.7071067811865476 = 0x1.6a09e667f3bcdp-1
\* 1/sqrt(2) cut to four decimals: 0.7071
SQRT2_INV_Short == Lit(0, <<3355, 14208, 2306, 1448>>, -53)

SQRT2_INV == Lit(0, <<15309, 6652, 2534, 1448>>, -53)
\* 1e-10 = 0x1.b7cdfd9d7bdbbp-34
TOL == Lit(0, <<15803, 10078, 3581, 1759>>, -86)

\* PI / 8.0, PI / 6.0 and PI / 4.0: the half angles the model draws
PI_8 == Lit(0, <<11544, 4368, 8117, 1608>>, -54)
PI_6 == Lit(0, <<13157, 8373, 5411, 1072>>, -53)
PI_4 == Lit(0, <<11544, 4368, 8117, 1608>>, -53)

\* f64::cos and f64::sin at those angles: the f64 nearest to the exact value.
\* cos is even and sin is odd in x, bit for bit.
CosTable(x) ==
  CASE x = PI_8 -> Lit(0, <<3398, 15562, 1724, 1892>>, -53)     \* 0.9238795325112867
    [] x = PI_6 -> Lit(0, <<3243, 8545, 10158, 1773>>, -53)     \* 0.8660254037844387
    [] x = PI_4 -> Lit(0, <<15309, 6652, 2534, 1448>>, -53)     \* 0.7071067811865476

SinTable(x) ==
  CASE x = PI_8 -> Lit(0, <<10595, 6842, 7722, 1567>>, -54)    \* 0.3826834323650898
    [] x = PI_6 -> Lit(0, <<16383, 16383, 16383, 2047>>, -54)  \* 0.49999999999999994
    [] x = PI_4 -> Lit(0, <<15308, 6652, 2534, 1448>>, -53)    \* 0.7071067811865475

Cos(x) == IF IsZero(x) THEN One ELSE CosTable(FAbs(x))

Sin(x) ==
  IF IsZero(x) THEN Zero
  ELSE IF x.s = 1 THEN FNeg(SinTable(FAbs(x))) ELSE SinTable(x)

\* f64::exp; the gates call it at 0.0 only
Exp(x) == CASE IsZero(x) -> One

----------------------------------------------------------------------------
(* Complex64                                                               *)

C(re, im) == [re |-> re, im |-> im]

CAdd(a, b) == C(FAdd(a.re, b.re), FAdd(a.im, b.im))

CMul(a, b) ==
  C(FSub(FMul(a.re, b.re), FMul(a.im, b.im)),
    FAdd(FMul(a.re, b.im), FMul(a.im, b.re)))

\* Complex64 /= f64
CDivReal(a, r) == C(FDiv(a.re, r), FDiv(a.im, r))

norm_sqr(a) == FAdd(FMul(a.re, a.re), FMul(a.im, a.im))

from_polar(r, theta) == C(FMul(r, Cos(theta)), FMul(r, Sin(theta)))

CExp(a) == from_polar(Exp(a.re), a.im)

I == C(Zero, One)

----------------------------------------------------------------------------
(* SingleQubit                                                             *)

SingleQubit(alpha, beta) == [alpha |-> alpha, beta |-> beta]

new == SingleQubit(C(One, Zero), C(Zero, Zero))

new_one == SingleQubit(C(Zero, Zero), C(One, Zero))

\* normalize with the guard written norm >= 1e-10
RescaleAtThreshold(q, norm) ==
  IF ~FLt(norm, TOL)
  THEN SingleQubit(CDivReal(q.alpha, norm), CDivReal(q.beta, norm))
  ELSE q

\* the body of normalize once norm is computed
Rescale(q, norm) ==
  IF FGt(norm, TOL)
  THEN SingleQubit(CDivReal(q.alpha, norm), CDivReal(q.beta, norm))
  ELSE q

normalize(q) == Rescale(q, FSqrt(FAdd(norm_sqr(q.alpha), norm_sqr(q.beta))))

from_amplitudes(alpha, beta) == normalize(SingleQubit(alpha, beta))

prob_zero(q) == norm_sqr(q.alpha)

prob_one(q) == norm_sqr(q.beta)

\* apply_gate writing self.alpha before new_beta is computed
apply_gate_in_place(q, matrix) ==
  LET new_alpha == CAdd(CMul(matrix[1][1], q.alpha), CMul(matrix[1][2], q.beta))
      new_beta  == CAdd(CMul(matrix[2][1], new_alpha), CMul(matrix[2][2], q.beta))
  IN  SingleQubit(new_alpha, new_beta)

apply_gate(q, matrix) ==
  LET new_alpha == CAdd(CMul(matrix[1][1], q.alpha), CMul(matrix[1][2], q.beta))
      new_beta  == CAdd(CMul(matrix[2][1], q.alpha), CMul(matrix[2][2], q.beta))
  IN  SingleQubit(new_alpha, new_beta)

----------------------------------------------------------------------------
(* The gate library: each gate builds its matrix and calls apply_gate.     *)

\* X with a sign slipped into the lower row
XMatrixSigned == << <<C(Zero, Zero), C(One, Zero)>>,
                    <<C(FNeg(One), Zero), C(Zero, Zero)>> >>

XMatrix == << <<C(Zero, Zero), C(One, Zero)>>,
              <<C(One, Zero), C(Zero, Zero)>> >>

\* Y with its two phases exchanged
YMatrixConj == << <<C(Zero, Zero), C(Zero, One)>>,
                  <<C(Zero, FNeg(One)), C(Zero, Zero)>> >>

YMatrix == << <<C(Zero, Zero), C(Zero, FNeg(One))>>,
              <<C(Zero, One), C(Zero, Zero)>> >>

ZMatrix == << <<C(One, Zero), C(Zero, Zero)>>,
              <<C(Zero, Zero), C(FNeg(One), Zero)>> >>

\* H without the minus sign of its last entry
HMatrixAllPlus == << <<C(SQRT2_INV, Zero), C(SQRT2_INV, Zero)>>,
                     <<C(SQRT2_INV, Zero), C(SQRT2_INV, Zero)>> >>

HMatrix == << <<C(SQRT2_INV, Zero), C(SQRT2_INV, Zero)>>,
              <<C(SQRT2_INV, Zero), C(FNeg(SQRT2_INV), Zero)>> >>

RxOf(cos, sin) ==
  << <<C(cos, Zero), C(Zero, FNeg(sin))>>,
     <<C(Zero, FNeg(sin)), C(cos, Zero)>> >>

RxMatrix(theta) == RxOf(Cos(FDiv(theta, Two)), Sin(FDiv(theta, Two)))

RyOf(cos, sin) ==
  << <<C(cos, Zero), C(FNeg(sin), Zero)>>,
     <<C(sin, Zero), C(cos, Zero)>> >>

RyMatrix(theta) == RyOf(Cos(FDiv(theta, Two)), Sin(FDiv(theta, Two)))

\* RZ with its two phases exchanged
RzOfSwapped(exp_neg, exp_pos) ==
  << <<exp_pos, C(Zero, Zero)>>,
     <<C(Zero, Zero), exp_neg>> >>

RzOf(exp_neg, exp_pos) ==
  << <<exp_neg, C(Zero, Zero)>>,
     <<C(Zero, Zero), exp_pos>> >>

RzMatrix(theta) ==
  RzOf(CExp(C(Zero, FDiv(FNeg(theta), Two))), CExp(C(Zero, FDiv(theta, Two))))

SMatrix == << <<C(One, Zero), C(Zero, Zero)>>,
              <<C(Zero, Zero), I>> >>

TOf(phase) ==
  << <<C(One, Zero), C(Zero, Zero)>>,
     <<C(Zero, Zero), phase>> >>

TMatrix == TOf(CExp(C(Zero, FDiv(PI, Four))))

x_gate(q) == apply_gate(q, XMatrix)
y_gate(q) == apply_gate(q, YMatrix)
z_gate(q) == apply_gate(q, ZMatrix)
h_gate(q) == apply_gate(q, HMatrix)
rx_gate(q, theta) == apply_gate(q, RxMatrix(theta))
ry_gate(q, theta) == apply_gate(q, RyMatrix(theta))
rz_gate(q, theta) == apply_gate(q, RzMatrix(theta))
s_gate(q) == apply_gate(q, SMatrix)
t_gate(q) == apply_gate(q, TMatrix)

----------------------------------------------------------------------------
(* Bounds and inputs                                                       *)

\* operations a client calls on one qubit after constructing it
MaxOps == 2

CZero == C(Zero, Zero)

\* 2e-10 and 1e200
Small == Lit(0, <<15803, 10078, 3581, 1759>>, -85)
Huge == Lit(0, <<8794, 8029, 12685, 1337>>, 612)

\* The amplitudes of a qubit that started as new() and went through h_gate,
\* t_gate, h_gate, t_gate, ... 1520908 times (760454 of each):
\*   alpha = -0.8308513785888292 + 0.49261538390045945 i
\*   beta  = -0.09906702922283465 - 0.23916896550891964 i
\* with |alpha|^2 + |beta|^2 = 1.0000000000999998
Drifted ==
  << C(Lit(1, <<1124, 1392, 9562, 1701>>, -53),
       Lit(0, <<14636, 13147, 12330, 2017>>, -54)),
     C(Lit(1, <<15171, 2686, 1871, 1623>>, -56),
       Lit(1, <<7020, 2600, 4459, 1959>>, -55)) >>

\* The amplitude pairs a client hands to from_amplitudes: the 3-4-5 pair of
\* test_normalization, a complex pair with an irrational norm, the zero
\* vector, pairs with a norm of exactly 1e-10 and just above it, and a pair
\* whose squared norm exceeds the largest f64.
AmpPairs ==
  { <<C(Three, Zero), C(Four, Zero)>>,
    <<C(One, One), C(Zero, FNeg(Two))>>,
    <<CZero, CZero>>,
    <<C(TOL, Zero), CZero>>,
    <<CZero, C(Zero, Small)>>,
    <<C(Huge, Zero), CZero>> }

\* The amplitude pairs a client writes into a SingleQubit { alpha, beta }
\* literal: the pair of test_normalization, a pair with a norm of exactly
\* 1e-10, and the pair a long run of gates leaves behind.
LiteralPairs ==
  { <<C(Three, Zero), C(Four, Zero)>>,
    <<C(TOL, Zero), CZero>>,
    Drifted }

\* The angles a client passes: PI / 3.0 and -(PI / 2.0)
Thetas ==
  { Lit(0, <<13157, 8373, 5411, 1072>>, -52),
    Lit(1, <<11544, 4368, 8117, 1608>>, -52) }

\* The matrices a client passes to apply_gate itself: it takes any matrix,
\* unitary or not
Matrices ==
  { << <<C(One, Zero), C(Two, Zero)>>,
       <<C(Zero, Three), C(Four, Zero)>> >> }

NoMatrix == << <<CZero, CZero>>, <<CZero, CZero>> >>

Constructors == {"new", "new_one", "from_amplitudes", "literal"}

LibraryGates ==
  {"x_gate", "y_gate", "z_gate", "h_gate", "s_gate", "t_gate",
   "rx_gate", "ry_gate", "rz_gate"}

Readers == {"prob_zero", "prob_one", "display", "display_with_message"}

\* (x - y).abs() < 1e-10, the comparison of the tests
Within(x, y) == FLt(FAbs(FSub(x, y)), TOL)

\* qubit.prob_zero() + qubit.prob_one()
total_prob(q) == FAdd(prob_zero(q), prob_one(q))

\* the normalization invariant: |alpha|^2 + |beta|^2 = 1 within 1e-10
Normalized(q) == Within(total_prob(q), One)

----------------------------------------------------------------------------
(* The operations, as a caller's steps                                     *)

OpRec(name, theta, a, b, m) ==
  [name |-> name, theta |-> theta, a |-> a, b |-> b, m |-> m]

\* a constructor returns q
Construct(name, a, b, q) ==
  /\ qubit' = q
  /\ op' = OpRec(name, Zero, a, b, NoMatrix)
  /\ prev' = q
  /\ ret' = Zero
  /\ steps' = 0
  /\ unit' = Normalized(q)
  /\ xrun' = 0
  /\ xbase' = q

\* a library gate function: it builds matrix m and calls apply_gate
Gate(name, theta, m) ==
  /\ qubit' = apply_gate(qubit, m)
  /\ op' = OpRec(name, theta, CZero, CZero, m)
  /\ prev' = qubit
  /\ ret' = Zero
  /\ steps' = steps + 1
  /\ unit' = unit
  /\ xrun' = IF name = "x_gate" THEN xrun + 1 ELSE 0
  /\ xbase' = IF name = "x_gate" THEN xbase ELSE qubit'

\* a reader that calls normalize before it reads
ReadNormalizing(name, r) ==
  /\ qubit' = normalize(qubit)
  /\ op' = OpRec(name, Zero, CZero, CZero, NoMatrix)
  /\ prev' = qubit
  /\ ret' = r
  /\ steps' = steps + 1
  /\ unit' = unit
  /\ xrun' = 0
  /\ xbase' = qubit

\* &self methods: they return r and leave the qubit alone
Read(name, r) ==
  /\ qubit' = qubit
  /\ op' = OpRec(name, Zero, CZero, CZero, NoMatrix)
  /\ prev' = qubit
  /\ ret' = r
  /\ steps' = steps + 1
  /\ unit' = unit
  /\ xrun' = 0
  /\ xbase' = qubit

\* qubit.normalize()
NormalizeCall ==
  /\ qubit' = normalize(qubit)
  /\ op' = OpRec("normalize", Zero, CZero, CZero, NoMatrix)
  /\ prev' = qubit
  /\ ret' = Zero
  /\ steps' = steps + 1
  /\ unit' = Normalized(qubit')
  /\ xrun' = 0
  /\ xbase' = qubit'

\* qubit.apply_gate(m), called directly
ApplyGateCall(m) ==
  /\ qubit' = apply_gate(qubit, m)
  /\ op' = OpRec("apply_gate", Zero, CZero, CZero, m)
  /\ prev' = qubit
  /\ ret' = Zero
  /\ steps' = steps + 1
  /\ unit' = FALSE
  /\ xrun' = 0
  /\ xbase' = qubit'

Unbuilt == caller = "client" /\ op.name = "start"
Built == caller = "client" /\ op.name # "start" /\ steps < MaxOps

New == Unbuilt /\ Construct("new", CZero, CZero, new) /\ UNCHANGED <<caller, pc>>

NewOne ==
  Unbuilt /\ Construct("new_one", CZero, CZero, new_one) /\ UNCHANGED <<caller, pc>>

FromAmplitudes ==
  /\ Unbuilt
  /\ \E p \in AmpPairs :
       Construct("from_amplitudes", p[1], p[2], from_amplitudes(p[1], p[2]))
  /\ UNCHANGED <<caller, pc>>

\* SingleQubit { alpha, beta }: the fields are public (test_normalization)
Literal ==
  /\ Unbuilt
  /\ \E p \in LiteralPairs :
       Construct("literal", p[1], p[2], SingleQubit(p[1], p[2]))
  /\ UNCHANGED <<caller, pc>>

Normalize == Built /\ NormalizeCall /\ UNCHANGED <<caller, pc>>

ProbZero == Built /\ Read("prob_zero", prob_zero(qubit)) /\ UNCHANGED <<caller, pc>>

ProbOne == Built /\ Read("prob_one", prob_one(qubit)) /\ UNCHANGED <<caller, pc>>

Display == Built /\ Read("display", Zero) /\ UNCHANGED <<caller, pc>>

DisplayWithMessage ==
  Built /\ Read("display_with_message", Zero) /\ UNCHANGED <<caller, pc>>

ApplyGate ==
  Built /\ (\E m \in Matrices : ApplyGateCall(m)) /\ UNCHANGED <<caller, pc>>

XGate == Built /\ Gate("x_gate", Zero, XMatrix) /\ UNCHANGED <<caller, pc>>
YGate == Built /\ Gate("y_gate", Zero, YMatrix) /\ UNCHANGED <<caller, pc>>
ZGate == Built /\ Gate("z_gate", Zero, ZMatrix) /\ UNCHANGED <<caller, pc>>
HGate == Built /\ Gate("h_gate", Zero, HMatrix) /\ UNCHANGED <<caller, pc>>
SGate == Built /\ Gate("s_gate", Zero, SMatrix) /\ UNCHANGED <<caller, pc>>
TGate == Built /\ Gate("t_gate", Zero, TMatrix) /\ UNCHANGED <<caller, pc>>

RxGate ==
  /\ Built
  /\ \E theta \in Thetas : Gate("rx_gate", theta, RxMatrix(theta))
  /\ UNCHANGED <<caller, pc>>

RyGate ==
  /\ Built
  /\ \E theta \in Thetas : Gate("ry_gate", theta, RyMatrix(theta))
  /\ UNCHANGED <<caller, pc>>

RzGate ==
  /\ Built
  /\ \E theta \in Thetas : Gate("rz_gate", theta, RzMatrix(theta))
  /\ UNCHANGED <<caller, pc>>

----------------------------------------------------------------------------
(* main: the statements of main.rs that touch a qubit, in order            *)

St(name, theta) == [name |-> name, theta |-> theta]

Main ==
  << \* Demo 1: basic gates
     St("new", Zero), St("display_with_message", Zero),
     St("h_gate", Zero), St("display_with_message", Zero),
     St("x_gate", Zero), St("display_with_message", Zero),
     St("z_gate", Zero), St("display_with_message", Zero),
     \* Demo 2: rotation gates
     St("new", Zero), St("display_with_message", Zero),
     St("ry_gate", FDiv(PI, Four)), St("display_with_message", Zero),
     St("rx_gate", FDiv(PI, Two)), St("display_with_message", Zero),
     St("rz_gate", FDiv(PI, Three)), St("display_with_message", Zero),
     \* Demo 3: superposition
     St("new", Zero), St("display_with_message", Zero),
     St("h_gate", Zero), St("display_with_message", Zero),
     \* Demo 4: phase gates
     St("new", Zero),
     St("h_gate", Zero), St("display_with_message", Zero),
     St("s_gate", Zero), St("display_with_message", Zero),
     St("t_gate", Zero), St("display_with_message", Zero),
     \* Demo 5: reversibility
     St("new", Zero), St("display_with_message", Zero),
     St("h_gate", Zero), St("x_gate", Zero), St("y_gate", Zero),
     St("display", Zero),
     St("y_gate", Zero), St("x_gate", Zero), St("h_gate", Zero),
     St("display_with_message", Zero) >>

\* the matrix a gate function builds
MatrixOf(name, theta) ==
  CASE name = "x_gate" -> XMatrix
    [] name = "y_gate" -> YMatrix
    [] name = "z_gate" -> ZMatrix
    [] name = "h_gate" -> HMatrix
    [] name = "s_gate" -> SMatrix
    [] name = "t_gate" -> TMatrix
    [] name = "rx_gate" -> RxMatrix(theta)
    [] name = "ry_gate" -> RyMatrix(theta)
    [] name = "rz_gate" -> RzMatrix(theta)

MainStep ==
  /\ caller = "main"
  /\ pc <= Len(Main)
  /\ CASE Main[pc].name = "new" -> Construct("new", CZero, CZero, new)
       [] Main[pc].name \in Readers -> Read(Main[pc].name, Zero)
       [] OTHER -> Gate(Main[pc].name, Main[pc].theta,
                        MatrixOf(Main[pc].name, Main[pc].theta))
  /\ pc' = pc + 1
  /\ UNCHANGED caller

Init ==
  /\ caller \in {"main", "client"}
  /\ pc = 1
  /\ qubit = SingleQubit(CZero, CZero)
  /\ prev = SingleQubit(CZero, CZero)
  /\ op = OpRec("start", Zero, CZero, CZero, NoMatrix)
  /\ ret = Zero
  /\ steps = 0
  /\ unit = FALSE
  /\ xrun = 0
  /\ xbase = SingleQubit(CZero, CZero)

Next ==
  \/ New \/ NewOne \/ FromAmplitudes \/ Literal
  \/ Normalize \/ ProbZero \/ ProbOne \/ Display \/ DisplayWithMessage
  \/ ApplyGate
  \/ XGate \/ YGate \/ ZGate \/ HGate \/ SGate \/ TGate
  \/ RxGate \/ RyGate \/ RzGate
  \/ MainStep

Spec == Init /\ [][Next]_vars

----------------------------------------------------------------------------
(* The properties                                                          *)

AnyGate == LibraryGates \cup {"apply_gate"}

\* the input of the latest normalization: self of normalize(), or the pair
\* handed to from_amplitudes
NormInput ==
  IF op.name = "normalize" THEN prev ELSE SingleQubit(op.a, op.b)

\* sqrt(|alpha|^2 + |beta|^2) as f64 arithmetic yields it
NormOf(q) == FSqrt(FAdd(norm_sqr(q.alpha), norm_sqr(q.beta)))

DividedBy(q, norm) ==
  SingleQubit(C(FDiv(q.alpha.re, norm), FDiv(q.alpha.im, norm)),
              C(FDiv(q.beta.re, norm), FDiv(q.beta.im, norm)))

Nine == Lit(0, <<0, 0, 0, 1152>>, -49)
TwentyFive == Lit(0, <<0, 0, 0, 1600>>, -48)
Sixteen == Lit(0, <<0, 0, 0, 1024>>, -48)

\* main's statements 28..37 are Demo 5; the sixth gate is statement 36
Demo5Done == caller = "main" /\ pc > 36

\* C1: from a state with |alpha|^2 + |beta|^2 = 1 (new(), new_one(), or any
\* other such state), after each library gate of any sequence of them,
\* prob_zero() + prob_one() is 1 within 1e-10.
C1_NormalizationInvariant == unit => Normalized(qubit)

\* C2: new(), new_one() and from_amplitudes(alpha, beta), for any pair whose
\* norm exceeds 1e-10, return a state with prob_zero() + prob_one() = 1 within
\* 1e-10, both amplitudes divided by the norm; (3,0), (4,0) gives 9/25 and
\* 16/25.
C2_ValidConstructions ==
  /\ (steps = 0 /\ op.name \in {"new", "new_one"}) => Normalized(qubit)
  /\ (steps = 0 /\ op.name = "from_amplitudes" /\ FGt(NormOf(NormInput), TOL)) =>
       /\ Normalized(qubit)
       /\ qubit = DividedBy(NormInput, NormOf(NormInput))
  /\ ( /\ steps = 0
       /\ op.name = "from_amplitudes"
       /\ op.a = C(Three, Zero)
       /\ op.b = C(Four, Zero) ) =>
       /\ Within(prob_zero(qubit), FDiv(Nine, TwentyFive))
       /\ Within(prob_one(qubit), FDiv(Sixteen, TwentyFive))

\* C3: after x_gate twice in a row, alpha, beta, prob_zero() and prob_one()
\* are what they were before the two calls.
C3_XTwiceIdentity ==
  xrun = 2 =>
    /\ qubit.alpha = xbase.alpha
    /\ qubit.beta = xbase.beta
    /\ prob_zero(qubit) = prob_zero(xbase)
    /\ prob_one(qubit) = prob_one(xbase)

C3_Witness ==
  /\ xrun = 2
  /\ xbase.alpha # xbase.beta
  /\ xbase.alpha.im # Zero
  /\ qubit = xbase

\* C4: x_gate turns (alpha, beta) into (beta, alpha), y_gate into
\* (-i*beta, i*alpha), z_gate into (alpha, -beta); x_gate on new() gives
\* prob_zero() = 0 and prob_one() = 1.
C4_PauliEffects ==
  /\ op.name = "x_gate" => qubit = SingleQubit(prev.beta, prev.alpha)
  /\ op.name = "y_gate" =>
       qubit = SingleQubit(C(prev.beta.im, FNeg(prev.beta.re)),
                           C(FNeg(prev.alpha.im), prev.alpha.re))
  /\ op.name = "z_gate" =>
       qubit = SingleQubit(prev.alpha, C(FNeg(prev.beta.re), FNeg(prev.beta.im)))
  /\ (op.name = "x_gate" /\ prev = new) =>
       prob_zero(qubit) = Zero /\ prob_one(qubit) = One

C4_Witness ==
  /\ op.name = "y_gate"
  /\ prev.alpha.re # Zero /\ prev.alpha.im # Zero
  /\ prev.beta.im # Zero
  /\ qubit # prev

\* C5: h_gate on new() or new_one() gives prob_zero() = 0.5 and
\* prob_one() = 0.5 within 1e-10.
C5_HadamardOnBasis ==
  (op.name = "h_gate" /\ prev \in {new, new_one}) =>
    /\ Within(prob_zero(qubit), Half)
    /\ Within(prob_one(qubit), Half)

C5_Witness ==
  /\ op.name = "h_gate"
  /\ prev = new_one
  /\ prob_zero(qubit) # Half

\* C6: new() followed by h_gate, x_gate, y_gate, y_gate, x_gate, h_gate, as
\* main's Demo 5 runs them, ends with prob_zero() = 1 and prob_one() = 0
\* within 1e-10.
C6_DemoReversible ==
  Demo5Done => Within(prob_zero(qubit), One) /\ Within(prob_one(qubit), Zero)

C6_Witness == Demo5Done /\ pc = Len(Main) + 1 /\ steps = 9

\* C7 as stated: rz_gate(theta) leaves prob_zero() and prob_one() unchanged,
\* for any state.
C7_RzUnchanged ==
  op.name = "rz_gate" =>
    /\ prob_zero(qubit) = prob_zero(prev)
    /\ prob_one(qubit) = prob_one(prev)

\* C7: rz_gate(theta) multiplies alpha by e^{-i*theta/2} and beta by
\* e^{i*theta/2}; on a state with |alpha|^2 + |beta|^2 = 1 within 1e-10 it
\* leaves prob_zero() and prob_one() unchanged within 1e-10.
C7_RzPhaseOnly ==
  op.name = "rz_gate" =>
    /\ qubit.alpha = CMul(CExp(C(Zero, FDiv(FNeg(op.theta), Two))), prev.alpha)
    /\ qubit.beta = CMul(CExp(C(Zero, FDiv(op.theta, Two))), prev.beta)
    /\ Normalized(prev) =>
         /\ Within(prob_zero(qubit), prob_zero(prev))
         /\ Within(prob_one(qubit), prob_one(prev))

C7_Witness ==
  /\ op.name = "rz_gate"
  /\ Normalized(prev)
  /\ prob_zero(qubit) # prob_zero(prev)
  /\ prev.alpha # CZero /\ prev.beta # CZero

\* C8: with a norm of at most 1e-10, normalize() leaves alpha and beta as
\* they are and from_amplitudes returns its arguments; the amplitudes are
\* divided by the norm exactly when it exceeds 1e-10.
C8_DegenerateGuard ==
  op.name \in {"normalize", "from_amplitudes"} =>
    /\ ~FGt(NormOf(NormInput), TOL) => qubit = NormInput
    /\ FGt(NormOf(NormInput), TOL) =>
         qubit = DividedBy(NormInput, NormOf(NormInput))
    /\ qubit # NormInput => FGt(NormOf(NormInput), TOL)

C8_Witness ==
  /\ op.name = "normalize"
  /\ prev.alpha.re = TOL
  /\ NormOf(prev) = TOL
  /\ qubit = prev

\* C9 as stated: a step that changes alpha or beta of an existing qubit is
\* an apply_gate call, direct or through a gate function.
C9_OnlyGatesMutate ==
  (steps > 0 /\ qubit # prev) => op.name \in AnyGate

\* C9: a step that changes alpha or beta of an existing qubit is an
\* apply_gate call, direct or through a gate function, or a normalize()
\* call; prob_zero, prob_one, display and display_with_message change neither.
C9_GatesAndNormalizeMutate ==
  /\ (steps > 0 /\ qubit # prev) => op.name \in AnyGate \cup {"normalize"}
  /\ op.name \in Readers => qubit = prev

C9_Witness ==
  /\ op.name = "normalize"
  /\ steps > 0
  /\ qubit # prev

\* C10: apply_gate(m) on (alpha, beta) leaves alpha' = m00*alpha + m01*beta
\* and beta' = m10*alpha + m11*beta, both computed from the old pair.
C10_FromOldPair ==
  op.name \in AnyGate =>
    /\ qubit.alpha = CAdd(CMul(op.m[1][1], prev.alpha), CMul(op.m[1][2], prev.beta))
    /\ qubit.beta = CAdd(CMul(op.m[2][1], prev.alpha), CMul(op.m[2][2], prev.beta))

C10_Witness ==
  /\ op.name = "apply_gate"
  /\ op.m[2][1] # CZero
  /\ qubit.alpha # prev.alpha
  /\ prev.alpha # CZero
====
